---- MODULE Spec2Model ----
(***************************************************************************)
(* State machine of the WebRTC signalling server in src/main.go: the       *)
(* in-memory session store, the identity index, the WebSocket connection   *)
(* registry, the REST handlers that run under the store mutex, the         *)
(* per-connection receive loop and the goroutines that write frames.       *)
(***************************************************************************)
EXTENDS Integers, FiniteSets, Sequences, TLC

(* ------------------------------------------------------------------ *)
(* Bounds of the model                                                 *)
(* ------------------------------------------------------------------ *)
MaxSessions == 2
MaxConns == 2
MaxWrites == 1

Identities == {"alice", "bob", "carol"}
Kinds == {"video"}

(* ------------------------------------------------------------------ *)
(* State                                                               *)
(* ------------------------------------------------------------------ *)
VARIABLES
    sessions,       \* map sessionId -> *Session, with the Session it points to
    userSessions,   \* map username -> sessionId
    wsConnections,  \* map username -> connection
    conns,          \* the connections whose receive loop runs: id -> username
    goroutines,     \* "go func() { conn.WriteJSON(...) }()" started and not
                    \* yet run, in the order they were started
    last,           \* the step taken last and what it answered or wrote
    race,           \* requests in flight at once on one session (SpecRace,
                    \* SpecTerminal)
    mu,             \* the RWMutex: who holds it, and what the holder has
                    \* still to write before it unlocks (SpecLock)
    stalled,        \* the connection whose peer reads no more, and whether
                    \* a write to it is blocked, as it then is for ever
                    \* (SpecLock)
    limit           \* how many started goroutines the model lets wait

vars == <<sessions, userSessions, wsConnections, conns, goroutines, last, race,
          mu, stalled, limit>>

\* what a run of the handlers alone leaves as it is
scenario == <<race, mu, stalled, limit>>

(* ------------------------------------------------------------------ *)
(* Go maps                                                             *)
(* ------------------------------------------------------------------ *)
EmptyMap == [x \in {} |-> 0]

MapPut(m, k, v) == [x \in (DOMAIN m) \cup {k} |-> IF x = k THEN v ELSE m[x]]

MapDelete(m, k) == [x \in (DOMAIN m) \ {k} |-> m[x]]

(* ------------------------------------------------------------------ *)
(* JSON payload of a frame: WebSocketMessage.Data is decoded into a    *)
(* map[string]interface{} and encoded again when it is forwarded.      *)
(* A number n is written [big |-> FALSE, d |-> n]; the number 2^53 + n *)
(* is written [big |-> TRUE, d |-> n].                                 *)
(* ------------------------------------------------------------------ *)
WireData ==
    { [kind |-> "object", big |-> FALSE, d |-> 1],
      [kind |-> "object", big |-> TRUE, d |-> 1],
      [kind |-> "string", big |-> FALSE, d |-> 0] }

NoData == [kind |-> "none", big |-> FALSE, d |-> 0]

\* encoding/json stores a JSON number held by an interface{} as a float64:
\* 53 bits of mantissa, round to nearest, ties to even.
Float64(big, d) ==
    IF ~big \/ d % 2 = 0 THEN d
    ELSE IF d % 4 = 1 THEN d - 1 ELSE d + 1

\* conn.ReadJSON(&msg) on the data member: ok is FALSE when the JSON value
\* cannot be stored in a map (the read loop then ends).
DecodeData(w) ==
    IF w.kind = "object"
    THEN [ok |-> TRUE,
          val |-> [kind |-> "map", big |-> w.big, d |-> Float64(w.big, w.d)]]
    ELSE IF w.kind = "null"
    THEN [ok |-> TRUE, val |-> [kind |-> "nil", big |-> FALSE, d |-> 0]]
    ELSE [ok |-> FALSE, val |-> NoData]

\* conn.WriteJSON of the decoded map.
EncodeData(v) ==
    IF v.kind = "map" THEN [kind |-> "object", big |-> v.big, d |-> v.d]
    ELSE IF v.kind = "nil" THEN [kind |-> "null", big |-> FALSE, d |-> 0]
    ELSE NoData

(* ------------------------------------------------------------------ *)
(* Sessions                                                            *)
(* ------------------------------------------------------------------ *)
NoBody == [SessionID |-> 0, Caller |-> "", Target |-> "", Status |-> "",
           Type |-> ""]

NewSession(id, username, target, kind) ==
    [SessionID |-> id, Caller |-> username, Target |-> target,
     Status |-> "pending", Type |-> kind]

Min(S) == CHOOSE x \in S : \A y \in S : x <= y

\* uuid.New().String(): an id no stored session has
FreeSessionIDs == (1..MaxSessions) \ DOMAIN sessions

\* "otherUser" of handleCancelSession
OtherUser(s, username) ==
    IF sessions[s].Caller # username THEN sessions[s].Caller ELSE sessions[s].Target

\* (mutant) the other user is taken to be the target, whoever left
RelayOtherUser_Target(s, username) == sessions[s].Target

\* "otherUser" of the signal relay and of the cleanup on disconnect
RelayOtherUser(s, username) ==
    IF sessions[s].Target = username THEN sessions[s].Caller ELSE sessions[s].Target

\* session.Status = status
SetStatus(s, status) == [sessions[s] EXCEPT !.Status = status]

(* ------------------------------------------------------------------ *)
(* Connections and the goroutines that write to them                   *)
(* ------------------------------------------------------------------ *)
\* upgrader.Upgrade: a connection of username that is not open yet
FreeConns(username) == {<<username, n>> : n \in 1..MaxConns} \ DOMAIN conns

NoConn == <<"", 0>>

\* (mutant) a user without a connection is notified on somebody else's
Notify_Fallback(registry, user, s, status) ==
    IF registry # EmptyMap
    THEN <<[conn |-> IF user \in DOMAIN registry THEN registry[user]
                     ELSE registry[CHOOSE x \in DOMAIN registry : TRUE],
            event |-> "session_updated", sid |-> s,
            body |-> NoBody, data |-> NoData, issued |-> status]>>
    ELSE <<>>

\* if conn, ok := registry[user]; ok { go func() { conn.WriteJSON } }
\* The goroutine holds the pointer to the session (sid), not a copy; issued
\* is the status the handler has set when it starts the goroutine.
Notify(registry, user, s, status) ==
    IF user \in DOMAIN registry
    THEN <<[conn |-> registry[user], event |-> "session_updated", sid |-> s,
            body |-> NoBody, data |-> NoData, issued |-> status]>>
    ELSE <<>>

\* delete(sessions, s): no handler reaches the Session any more, so what the
\* goroutines that point to it will read is what it holds now
Freeze(gs, s, session) ==
    [i \in DOMAIN gs |->
        IF gs[i].sid = s THEN [gs[i] EXCEPT !.sid = 0, !.body = session] ELSE gs[i]]

\* conn.Close(): the goroutines still to write to c fail and end
Unwritten(gs, c) == SelectSeq(gs, LAMBDA g : g.conn # c)

CanSpawn(gs, started) == Len(gs) + Len(started) <= limit

\* What a step answered (an HTTP response) or did (a frame read or written);
\* was is the status a session had before the step that ended it
Event(op, user, target, err, code, body, conn, data) ==
    [op |-> op, user |-> user, target |-> target, err |-> err, code |-> code,
     body |-> body, conn |-> conn, data |-> data, was |-> ""]

\* http.Error(w, ..., code) or json.NewEncoder(w).Encode(session)
Answer(op, user, target, err, code, body) ==
    Event(op, user, target, err, code, body, NoConn, NoData)

\* ops: the transitions that end the session, issued together (SpecTerminal)
NoRace == [sid |-> 0, caller |-> "", target |-> "", accept |-> "idle",
           cancel |-> "idle", ops |-> EmptyMap]

\* sync.RWMutex, nobody holding it. holder is the handler that holds it,
\* inline the writes to connections the holder makes itself before it unlocks.
Unlocked == [holder |-> "", inline |-> <<>>]

\* every peer reads what is written to it
NoStall == [conn |-> NoConn, blocked |-> FALSE]

Init ==
    /\ sessions = EmptyMap
    /\ userSessions = EmptyMap
    /\ wsConnections = EmptyMap
    /\ conns = EmptyMap
    /\ goroutines = <<>>
    /\ last = Answer("start", "", "", "ok", 0, NoBody)
    /\ race = NoRace
    /\ mu = Unlocked
    /\ stalled = NoStall
    /\ limit = MaxWrites

(* ------------------------------------------------------------------ *)
(* POST /api/session                                                   *)
(* ------------------------------------------------------------------ *)
\* (mutant) the check of the target's index entry is missing
CreateCheck_NoBusy(username, target) ==
    IF username \in DOMAIN userSessions THEN "AlreadyInSession"
    ELSE IF target = username THEN "SelfTarget"
    ELSE "ok"

\* (mutant) the check of initiator = target is missing
CreateCheck_NoSelf(username, target) ==
    IF username \in DOMAIN userSessions THEN "AlreadyInSession"
    ELSE IF target \in DOMAIN userSessions THEN "TargetBusy"
    ELSE "ok"

CreateCheck(username, target) ==
    IF username \in DOMAIN userSessions THEN "AlreadyInSession"
    ELSE IF target \in DOMAIN userSessions THEN "TargetBusy"
    ELSE IF target = username THEN "SelfTarget"
    ELSE "ok"

CreateCode(err) ==
    IF err = "AlreadyInSession" THEN 400
    ELSE IF err = "TargetBusy" THEN 409
    ELSE IF err = "SelfTarget" THEN 400
    ELSE 200

\* (mutant) only the caller is indexed
CreateIndex_CallerOnly(username, target, s) == MapPut(userSessions, username, s)

CreateIndex(username, target, s) ==
    MapPut(MapPut(userSessions, username, s), target, s)

handleCreateSession(username, target, kind) ==
    LET err == CreateCheck(username, target)
    IN IF err # "ok"
       THEN /\ last' = Answer("create", username, target, err, CreateCode(err), NoBody)
            /\ UNCHANGED <<sessions, userSessions, wsConnections, conns, goroutines>>
       ELSE /\ FreeSessionIDs # {}
            /\ LET s == Min(FreeSessionIDs)
                   started == Notify(wsConnections, target, s, "pending")
               IN /\ CanSpawn(goroutines, started)
                  /\ sessions' = MapPut(sessions, s, NewSession(s, username, target, kind))
                  /\ userSessions' = CreateIndex(username, target, s)
                  /\ goroutines' = goroutines \o started
                  /\ last' = Answer("create", username, target, "ok", 200, sessions'[s])
                  /\ UNCHANGED <<wsConnections, conns>>

(* ------------------------------------------------------------------ *)
(* GET /api/session                                                    *)
(* ------------------------------------------------------------------ *)
GetSession(username) ==
    IF username \notin DOMAIN userSessions
    THEN Answer("get", username, "", "NoSession", 404, NoBody)
    ELSE IF userSessions[username] \notin DOMAIN sessions
    THEN Answer("get", username, "", "SessionNotFound", 404, NoBody)
    ELSE Answer("get", username, "", "ok", 200, sessions[userSessions[username]])

handleGetSession(username) ==
    /\ last' = GetSession(username)
    /\ UNCHANGED <<sessions, userSessions, wsConnections, conns, goroutines>>

(* ------------------------------------------------------------------ *)
(* POST /api/session/accept                                            *)
(* ------------------------------------------------------------------ *)
\* (mutant) the check of the status is missing
AcceptCheck_NoStatus(username) ==
    IF username \notin DOMAIN userSessions THEN "NoSession"
    ELSE IF userSessions[username] \notin DOMAIN sessions THEN "SessionNotFound"
    ELSE IF sessions[userSessions[username]].Target # username THEN "Forbidden"
    ELSE "ok"

AcceptCheck(username) ==
    IF username \notin DOMAIN userSessions THEN "NoSession"
    ELSE IF userSessions[username] \notin DOMAIN sessions THEN "SessionNotFound"
    ELSE IF sessions[userSessions[username]].Target # username THEN "Forbidden"
    ELSE IF sessions[userSessions[username]].Status # "pending" THEN "InvalidState"
    ELSE "ok"

\* the status codes of accept, decline and cancel
AcceptCode(err) ==
    IF err = "NoSession" THEN 404
    ELSE IF err = "SessionNotFound" THEN 404
    ELSE IF err = "Forbidden" THEN 403
    ELSE IF err = "InvalidState" THEN 400
    ELSE 200

\* the two notifications of accept: the caller's first, then the target's
AcceptNotify(s) ==
    Notify(wsConnections, sessions[s].Caller, s, "active")
        \o Notify(wsConnections, sessions[s].Target, s, "active")

handleAcceptSession(username) ==
    LET err == AcceptCheck(username)
    IN IF err # "ok"
       THEN /\ last' = Answer("accept", username, "", err, AcceptCode(err), NoBody)
            /\ UNCHANGED <<sessions, userSessions, wsConnections, conns, goroutines>>
       ELSE LET s == userSessions[username]
            IN /\ CanSpawn(goroutines, AcceptNotify(s))
               /\ sessions' = MapPut(sessions, s, SetStatus(s, "active"))
               /\ goroutines' = goroutines \o AcceptNotify(s)
               /\ last' = Answer("accept", username, "", "ok", 200, sessions'[s])
               /\ UNCHANGED <<userSessions, wsConnections, conns>>

(* ------------------------------------------------------------------ *)
(* POST /api/session/decline                                           *)
(* ------------------------------------------------------------------ *)
DeclineCheck(username) ==
    IF username \notin DOMAIN userSessions THEN "NoSession"
    ELSE IF userSessions[username] \notin DOMAIN sessions THEN "SessionNotFound"
    ELSE IF sessions[userSessions[username]].Target # username THEN "Forbidden"
    ELSE "ok"

\* (mutant) only the actor's index entry is deleted
IndexCleanup_ActorOnly(a, b) == MapDelete(userSessions, a)

\* delete(userSessions, a); delete(userSessions, b)
IndexCleanup(a, b) == MapDelete(MapDelete(userSessions, a), b)

\* (mutant) the session stays in the store
StoreCleanup_Skip(store, s) == store

\* delete(sessions, sessionID)
StoreCleanup(store, s) == MapDelete(store, s)

\* A terminal transition: set the status, start the notification, clean up.
\* closed is the connection the step closes (NoConn in a request handler).
Terminate(op, username, otherUser, s, status, started, code, closed) ==
    /\ CanSpawn(Unwritten(goroutines, closed), started)
    /\ goroutines' = Freeze(Unwritten(goroutines, closed) \o started, s,
                            SetStatus(s, status))
    /\ userSessions' = IndexCleanup(username, otherUser)
    /\ sessions' = StoreCleanup(MapPut(sessions, s, SetStatus(s, status)), s)
    /\ last' = [Event(op, username, "", "ok", code, SetStatus(s, status),
                      closed, NoData) EXCEPT !.was = sessions[s].Status]

handleDeclineSession(username) ==
    LET err == DeclineCheck(username)
    IN IF err # "ok"
       THEN /\ last' = Answer("decline", username, "", err, AcceptCode(err), NoBody)
            /\ UNCHANGED <<sessions, userSessions, wsConnections, conns, goroutines>>
       ELSE LET s == userSessions[username]
            IN /\ Terminate("decline", username, sessions[s].Caller, s, "declined",
                            Notify(wsConnections, sessions[s].Caller, s, "declined"),
                            200, NoConn)
               /\ UNCHANGED <<wsConnections, conns>>

(* ------------------------------------------------------------------ *)
(* DELETE /api/session                                                 *)
(* ------------------------------------------------------------------ *)
\* (mutant) cancel asks for a pending session, as accept does
CancelCheck_PendingOnly(username) ==
    IF username \notin DOMAIN userSessions THEN "NoSession"
    ELSE IF userSessions[username] \notin DOMAIN sessions THEN "SessionNotFound"
    ELSE IF sessions[userSessions[username]].Status # "pending" THEN "InvalidState"
    ELSE "ok"

CancelCheck(username) ==
    IF username \notin DOMAIN userSessions THEN "NoSession"
    ELSE IF userSessions[username] \notin DOMAIN sessions THEN "SessionNotFound"
    ELSE "ok"

handleCancelSession(username) ==
    LET err == CancelCheck(username)
    IN IF err # "ok"
       THEN /\ last' = Answer("cancel", username, "", err, AcceptCode(err), NoBody)
            /\ UNCHANGED <<sessions, userSessions, wsConnections, conns, goroutines>>
       ELSE LET s == userSessions[username]
            IN /\ Terminate("cancel", username, OtherUser(s, username), s, "cancelled",
                            Notify(wsConnections, OtherUser(s, username), s,
                                   "cancelled"), 200, NoConn)
               /\ UNCHANGED <<wsConnections, conns>>

(* ------------------------------------------------------------------ *)
(* GET /ws: upgrade, register, receive loop, cleanup                   *)
(* ------------------------------------------------------------------ *)
\* upgrader.Upgrade, then wsConnections[username] = conn under the lock
WsConnect(username) ==
    /\ Cardinality(DOMAIN conns) < MaxConns
    /\ LET c == CHOOSE x \in FreeConns(username) :
                    \A y \in FreeConns(username) : x[2] <= y[2]
       IN /\ conns' = MapPut(conns, c, username)
          /\ wsConnections' = MapPut(wsConnections, username, c)
          /\ last' = Event("ws_connect", username, "", "ok", 0, NoBody, c, NoData)
    /\ UNCHANGED <<sessions, userSessions, goroutines>>

\* (mutant) the relay does not ask for an active session
RelayTarget_AnyStatus(username) ==
    IF username \notin DOMAIN userSessions THEN {}
    ELSE IF userSessions[username] \notin DOMAIN sessions THEN {}
    ELSE {RelayOtherUser(userSessions[username], username)} \cap DOMAIN wsConnections

\* the relay of one "signal" message: who gets msg.Data, if anybody
RelayTarget(username) ==
    IF username \notin DOMAIN userSessions THEN {}
    ELSE IF userSessions[username] \notin DOMAIN sessions THEN {}
    ELSE IF sessions[userSessions[username]].Status # "active" THEN {}
    ELSE {RelayOtherUser(userSessions[username], username)} \cap DOMAIN wsConnections

\* go func() { otherConn.WriteJSON({"event": "signal", "data": msg.Data}) }()
RelaySend(username, data) ==
    IF RelayTarget(username) = {} THEN <<>>
    ELSE <<[conn |-> wsConnections[CHOOSE o \in RelayTarget(username) : TRUE],
            event |-> "signal", sid |-> 0, body |-> NoBody, data |-> data,
            issued |-> ""]>>

Relay(c, w) ==
    LET username == conns[c]
        started == RelaySend(username, DecodeData(w).val)
    IN /\ CanSpawn(goroutines, started)
       /\ goroutines' = goroutines \o started
       /\ last' = Event("signal", username, "",
                        IF started = <<>> THEN "dropped" ELSE "ok", 0, NoBody, c,
                        IF started = <<>> THEN NoData ELSE w)
       /\ UNCHANGED <<sessions, userSessions, wsConnections, conns>>

\* (mutant) the registry entry is left in place
Unregister_Skip(username) == wsConnections

\* delete(wsConnections, username), whichever connection is registered
Unregister(username) == MapDelete(wsConnections, username)

\* "Cleanup on disconnect": the code after the receive loop, and conn.Close()
Cleanup(c) ==
    LET username == conns[c]
        found == username \in DOMAIN userSessions
                 /\ userSessions[username] \in DOMAIN sessions
        s == userSessions[username]
    IN /\ wsConnections' = Unregister(username)
       /\ conns' = MapDelete(conns, c)
       /\ IF found
          THEN Terminate("disconnect", username, RelayOtherUser(s, username), s,
                         "disconnected",
                         Notify(wsConnections', RelayOtherUser(s, username), s,
                                "disconnected"), 0, c)
          ELSE /\ last' = Event("disconnect", username, "", "NoSession", 0,
                                NoBody, c, NoData)
               /\ goroutines' = Unwritten(goroutines, c)
               /\ UNCHANGED <<sessions, userSessions>>

\* conn.ReadJSON fails: the peer closed the connection
WsReadError(c) == Cleanup(c)

\* conn.ReadJSON returns one frame {event, data}
WsReadFrame(c, event, w) ==
    IF ~DecodeData(w).ok
    THEN Cleanup(c)
    ELSE IF event = "signal"
    THEN Relay(c, w)
    ELSE /\ last' = Event("ignored", conns[c], "", "ok", 0, NoBody, c, NoData)
         /\ UNCHANGED <<sessions, userSessions, wsConnections, conns, goroutines>>

Remove(q, i) == [j \in 1..(Len(q) - 1) |-> IF j < i THEN q[j] ELSE q[j + 1]]

\* the i-th started goroutine runs: conn.WriteJSON(map{"event", "data"});
\* a session_updated frame carries the Session as it is now. The write to a
\* connection whose peer reads no more does not return.
Write(i) ==
    LET g == goroutines[i]
    IN /\ g.conn # stalled.conn
       /\ goroutines' = Remove(goroutines, i)
       /\ last' = Event("write", conns[g.conn], "", g.event, i,
                        IF g.sid # 0 THEN sessions[g.sid] ELSE g.body,
                        g.conn, EncodeData(g.data))
       /\ UNCHANGED <<sessions, userSessions, wsConnections, conns>>

Events == {"signal", "ping"}

\* the goroutines the step started
Started == SubSeq(goroutines', Len(goroutines) + 1, Len(goroutines'))

\* the goroutines started by the step that closed connection c
StartedAtClose(c) ==
    SubSeq(goroutines', Len(Unwritten(goroutines, c)) + 1, Len(goroutines'))

Next ==
    \/ \E u \in Identities, t \in Identities, k \in Kinds :
          handleCreateSession(u, t, k) /\ UNCHANGED scenario
    \/ \E u \in Identities : handleGetSession(u) /\ UNCHANGED scenario
    \/ \E u \in Identities : handleAcceptSession(u) /\ UNCHANGED scenario
    \/ \E u \in Identities : handleDeclineSession(u) /\ UNCHANGED scenario
    \/ \E u \in Identities : handleCancelSession(u) /\ UNCHANGED scenario
    \/ \E u \in Identities : WsConnect(u) /\ UNCHANGED scenario
    \/ \E c \in DOMAIN conns : WsReadError(c) /\ UNCHANGED scenario
    \/ \E c \in DOMAIN conns, e \in Events, w \in WireData :
          WsReadFrame(c, e, w) /\ UNCHANGED scenario
    \/ \E i \in DOMAIN goroutines : Write(i) /\ UNCHANGED scenario

Spec == Init /\ [][Next]_vars

(* ------------------------------------------------------------------ *)
(* Two requests in flight at once: POST /api/session/accept of the     *)
(* target and DELETE /api/session of the caller of one pending         *)
(* session. Each handler runs under mu.Lock(), so the two run one      *)
(* after the other, in either order.                                   *)
(* ------------------------------------------------------------------ *)
IssueAcceptAndCancel(s) ==
    /\ race.accept = "idle"
    /\ sessions[s].Status = "pending"
    /\ race' = [sid |-> s, caller |-> sessions[s].Caller,
                target |-> sessions[s].Target, accept |-> "issued",
                cancel |-> "issued", ops |-> EmptyMap]
    /\ UNCHANGED <<sessions, userSessions, wsConnections, conns, goroutines, last>>
    /\ UNCHANGED <<mu, stalled, limit>>

RaceAccept ==
    /\ race.accept = "issued"
    /\ handleAcceptSession(race.target)
    /\ race' = [race EXCEPT !.accept = last'.err]
    /\ UNCHANGED <<mu, stalled, limit>>

RaceCancel ==
    /\ race.cancel = "issued"
    /\ handleCancelSession(race.caller)
    /\ race' = [race EXCEPT !.cancel = last'.err]
    /\ UNCHANGED <<mu, stalled, limit>>

NextRace ==
    \/ race.accept = "idle" /\ Next
    \/ \E s \in DOMAIN sessions : IssueAcceptAndCancel(s)
    \/ RaceAccept
    \/ RaceCancel

SpecRace == Init /\ [][NextRace]_vars

RaceDone == race.accept \notin {"idle", "issued"} /\ race.cancel \notin {"idle", "issued"}

(* ------------------------------------------------------------------ *)
(* Several transitions that end one session in flight at once: the     *)
(* decline of the target, the cancel of either party, the closure of a *)
(* connection of either party. Each takes mu.Lock(), so they run one   *)
(* after the other, in any order. They are issued when no goroutine    *)
(* waits, after a create, an accept or a registration.                 *)
(* ------------------------------------------------------------------ *)
TerminalOps ==
    {"decline_target", "cancel_caller", "cancel_target", "disconnect_caller",
     "disconnect_target"}

\* a transition of the race that has not run yet
Issued == [err |-> "issued", status |-> "", notified |-> 0, registered |-> FALSE]

\* the party that makes the request, or whose connection closes
Actor(x) ==
    IF x \in {"cancel_caller", "disconnect_caller"} THEN race.caller ELSE race.target

\* a party can lose a connection only if it has one
CanIssue(s, x) ==
    /\ x = "disconnect_caller" => \E c \in DOMAIN conns : conns[c] = sessions[s].Caller
    /\ x = "disconnect_target" => \E c \in DOMAIN conns : conns[c] = sessions[s].Target

IssueTerminal(s, R) ==
    /\ race.accept = "idle" /\ race.ops = EmptyMap
    /\ goroutines = <<>>
    /\ last.op \in {"create", "accept", "ws_connect"}
    /\ Cardinality(R) >= 2
    /\ \A x \in R : CanIssue(s, x)
    /\ race' = [sid |-> s, caller |-> sessions[s].Caller,
                target |-> sessions[s].Target, accept |-> "idle",
                cancel |-> "idle", ops |-> [x \in R |-> Issued]]
    /\ UNCHANGED <<sessions, userSessions, wsConnections, conns, goroutines, last>>
    /\ UNCHANGED <<mu, stalled, limit>>

\* one of the issued transitions runs; what it answered, the terminal status
\* it set, how many notifications it started and whether the other party had
\* a registered connection are kept
RaceTerminal(x) ==
    /\ x \in DOMAIN race.ops
    /\ race.ops[x] = Issued
    /\ \/ x = "decline_target" /\ handleDeclineSession(race.target)
       \/ x \in {"cancel_caller", "cancel_target"} /\ handleCancelSession(Actor(x))
       \/ /\ x \in {"disconnect_caller", "disconnect_target"}
          /\ \E c \in DOMAIN conns : conns[c] = Actor(x) /\ WsReadError(c)
    /\ race' = [race EXCEPT !.ops[x] =
                   [err |-> last'.err,
                    status |-> last'.body.Status,
                    notified |-> Len(IF last'.op = "disconnect"
                                     THEN StartedAtClose(last'.conn) ELSE Started),
                    registered |->
                        ({race.caller, race.target} \ {Actor(x)})
                            \subseteq DOMAIN wsConnections]]
    /\ UNCHANGED <<mu, stalled, limit>>

NextTerminal ==
    \/ race.ops = EmptyMap /\ Next
    \/ \E s \in DOMAIN sessions, R \in SUBSET TerminalOps : IssueTerminal(s, R)
    \/ \E x \in TerminalOps : RaceTerminal(x)

SpecTerminal == Init /\ [][NextTerminal]_vars

(* ------------------------------------------------------------------ *)
(* Two identities, and one more goroutine allowed to wait: the writes  *)
(* of two started goroutines to one connection.                        *)
(* ------------------------------------------------------------------ *)
Pair == {"alice", "bob"}

InitOrder ==
    /\ sessions = EmptyMap
    /\ userSessions = EmptyMap
    /\ wsConnections = EmptyMap
    /\ conns = EmptyMap
    /\ goroutines = <<>>
    /\ last = Answer("start", "", "", "ok", 0, NoBody)
    /\ race = NoRace
    /\ mu = Unlocked
    /\ stalled = NoStall
    /\ limit = MaxWrites + 1

NextOrder ==
    \/ \E u \in Pair, t \in Pair, k \in Kinds :
          handleCreateSession(u, t, k) /\ UNCHANGED scenario
    \/ \E u \in Pair : handleGetSession(u) /\ UNCHANGED scenario
    \/ \E u \in Pair : handleAcceptSession(u) /\ UNCHANGED scenario
    \/ \E u \in Pair : handleDeclineSession(u) /\ UNCHANGED scenario
    \/ \E u \in Pair : handleCancelSession(u) /\ UNCHANGED scenario
    \/ \E u \in Pair : WsConnect(u) /\ UNCHANGED scenario
    \/ \E c \in DOMAIN conns : WsReadError(c) /\ UNCHANGED scenario
    \/ \E c \in DOMAIN conns, e \in Events, w \in WireData :
          WsReadFrame(c, e, w) /\ UNCHANGED scenario
    \/ \E i \in DOMAIN goroutines : Write(i) /\ UNCHANGED scenario

SpecOrder == InitOrder /\ [][NextOrder]_vars

(* ------------------------------------------------------------------ *)
(* mu made explicit. A handler takes mu, runs its body and is left     *)
(* holding mu; it unlocks in a step of its own, which it can take once *)
(* the writes to connections it makes itself have returned. The peer   *)
(* of one connection may stop reading: the write of a goroutine to     *)
(* that connection then never returns.                                 *)
(* ------------------------------------------------------------------ *)
\* (mutant) conn.WriteJSON is called by the handler itself
Inline_Sync(started) == started

\* go func() { conn.WriteJSON(...) }(): the handler writes nothing itself
Inline(started) == <<>>

\* mu.Lock() or mu.RLock(), the body h of the handler, and what is left for
\* the handler to do before it unlocks. The relay unlocks before it starts
\* its goroutine.
Locked(h) ==
    /\ mu.holder = ""
    /\ h
    /\ mu' = [holder |-> last'.op,
              inline |-> IF last'.op = "signal" THEN <<>>
                         ELSE IF last'.op = "disconnect"
                         THEN Inline(StartedAtClose(last'.conn))
                         ELSE Inline(Started)]
    /\ UNCHANGED <<race, stalled, limit>>

\* mu.Unlock() or mu.RUnlock(), deferred or at the end of the locked section
Unlock ==
    /\ mu.holder # ""
    /\ \A k \in DOMAIN mu.inline : mu.inline[k].conn # stalled.conn
    /\ mu' = Unlocked
    /\ last' = Answer("unlock", "", "", "ok", 0, NoBody)
    /\ UNCHANGED <<sessions, userSessions, wsConnections, conns, goroutines>>
    /\ UNCHANGED <<race, stalled, limit>>

\* the peer of bob's first connection never reads
InitLock ==
    /\ sessions = EmptyMap
    /\ userSessions = EmptyMap
    /\ wsConnections = EmptyMap
    /\ conns = EmptyMap
    /\ goroutines = <<>>
    /\ last = Answer("start", "", "", "ok", 0, NoBody)
    /\ race = NoRace
    /\ mu = Unlocked
    /\ stalled = [conn |-> <<"bob", 1>>, blocked |-> FALSE]
    /\ limit = MaxWrites

\* the i-th started goroutine calls WriteJSON on the stalled connection and
\* does not return
Block(i) ==
    /\ goroutines[i].conn = stalled.conn
    /\ goroutines' = Remove(goroutines, i)
    /\ stalled' = [stalled EXCEPT !.blocked = TRUE]
    /\ UNCHANGED <<sessions, userSessions, wsConnections, conns, last>>
    /\ UNCHANGED <<race, mu, limit>>

NextLock ==
    \/ \E u \in Identities, t \in Identities, k \in Kinds :
          Locked(handleCreateSession(u, t, k))
    \/ \E u \in Identities : Locked(handleGetSession(u))
    \/ \E u \in Identities : Locked(handleAcceptSession(u))
    \/ \E u \in Identities : Locked(handleDeclineSession(u))
    \/ \E u \in Identities : Locked(handleCancelSession(u))
    \/ \E u \in Identities : Locked(WsConnect(u))
    \/ \E c \in DOMAIN conns \ {stalled.conn} : Locked(WsReadError(c))
    \/ \E c \in DOMAIN conns \ {stalled.conn}, e \in Events, w \in WireData :
          Locked(WsReadFrame(c, e, w))
    \/ \E i \in DOMAIN goroutines : Write(i) /\ UNCHANGED scenario
    \/ \E i \in DOMAIN goroutines : Block(i)
    \/ Unlock

\* the scheduler lets a handler that can unlock do so
SpecLock == InitLock /\ [][NextLock]_vars /\ WF_vars(Unlock)

(* ================================================================== *)
(* Properties                                                          *)
(* ================================================================== *)
Parties(s) == {sessions[s].Caller, sessions[s].Target}

Terminated(op) == last.op = op /\ last.err = "ok"

\* C1: every entry identity -> id of the identity index refers to a stored
\* session whose caller or target is that identity, and every stored session
\* has its caller and its target indexed to its own id.
C1_IndexMatchesStore ==
    /\ \A u \in DOMAIN userSessions :
          /\ userSessions[u] \in DOMAIN sessions
          /\ u \in Parties(userSessions[u])
    /\ \A s \in DOMAIN sessions : \A u \in Parties(s) :
          /\ u \in DOMAIN userSessions
          /\ userSessions[u] = s

\* a session is stored and indexed after an earlier one was cancelled by a
\* party whose peer is notified
C1_Witness ==
    /\ last.op = "accept" /\ last.err = "ok"
    /\ DOMAIN userSessions = Parties(last.body.SessionID)
    /\ \E i \in DOMAIN goroutines : goroutines[i].body.Status = "cancelled"

\* C2: every stored session is pending or active, and the step of decline,
\* cancel or disconnect that sets a terminal status also removes the session
\* from the store and its caller and target from the identity index.
C2_TerminalIsRemoved ==
    [][/\ \A s \in DOMAIN sessions' : sessions'[s].Status \in {"pending", "active"}
       /\ (last'.op \in {"decline", "cancel", "disconnect"} /\ last'.err = "ok")
            => /\ last'.body.Status \in {"declined", "cancelled", "disconnected"}
               /\ last'.body.SessionID \in DOMAIN sessions
               /\ last'.body.SessionID \notin DOMAIN sessions'
               /\ last'.body.Caller \notin DOMAIN userSessions'
               /\ last'.body.Target \notin DOMAIN userSessions']_vars

\* a disconnect has ended an active or pending session
C2_Witness == Terminated("disconnect") /\ last.body.Status = "disconnected"

\* C3: caller # target for every stored session, and no identity is a party
\* of two stored sessions.
C3_DistinctParties ==
    /\ \A s \in DOMAIN sessions : sessions[s].Caller # sessions[s].Target
    /\ \A s1, s2 \in DOMAIN sessions : s1 # s2 => Parties(s1) \cap Parties(s2) = {}

\* a create was refused because its target is in a stored session
C3_Witness ==
    /\ last.op = "create" /\ last.err = "TargetBusy"
    /\ DOMAIN sessions # {}

\* C4 as stated: of a concurrent accept by the target and cancel by the
\* caller of a pending session, exactly one succeeds and the other fails
\* with InvalidState or NoSession.
C4_ExactlyOneSucceeds ==
    RaceDone =>
        \/ race.accept = "ok" /\ race.cancel \in {"InvalidState", "NoSession"}
        \/ race.cancel = "ok" /\ race.accept \in {"InvalidState", "NoSession"}

\* C4 amended: the cancel always succeeds; the accept succeeds when it takes
\* the lock first and fails with NoSession otherwise; afterwards the session
\* is gone from the store and neither party is indexed.
C4_CancelAlwaysSucceeds ==
    RaceDone =>
        /\ race.cancel = "ok"
        /\ race.accept \in {"ok", "NoSession"}
        /\ race.sid \notin DOMAIN sessions
        /\ race.caller \notin DOMAIN userSessions
        /\ race.target \notin DOMAIN userSessions
        /\ (race.accept = "ok") = (last.op = "cancel")
        /\ (last.op = "cancel") => last.body.Status = "cancelled"

\* both requests were answered, the accept first
C4_Witness == RaceDone /\ race.accept = "ok" /\ last.op = "cancel"

AllowedTransitions ==
    { <<"pending", "active">>, <<"pending", "declined">>,
      <<"pending", "cancelled">>, <<"pending", "disconnected">>,
      <<"active", "cancelled">>, <<"active", "disconnected">> }

\* the status of stored session s after the step: the one in the store, or the
\* one the step gave it when it removed it
StatusAfter(s) ==
    IF s \in DOMAIN sessions' THEN sessions'[s].Status ELSE last'.body.Status

\* C5: every change of a session's status is pending->active,
\* pending->declined, pending->cancelled, pending->disconnected,
\* active->cancelled or active->disconnected.
C5_OnlyListedTransitions ==
    [][\A s \in DOMAIN sessions :
          StatusAfter(s) # sessions[s].Status
             => <<sessions[s].Status, StatusAfter(s)>> \in AllowedTransitions]_vars

InIndex(u) == u \in DOMAIN userSessions

C7_CreateThenGet ==
    [][\A a, b \in Identities :
        (/\ last'.op = "create" /\ last'.user = a /\ last'.target = b
         /\ ~InIndex(a) /\ ~InIndex(b) /\ a # b)
         => /\ last'.err = "ok"
            /\ GetSession(a)'.err = "ok"
            /\ GetSession(b)'.err = "ok"
            /\ GetSession(a)'.body = last'.body
            /\ GetSession(b)'.body = last'.body
            /\ last'.body.SessionID \notin DOMAIN sessions
            /\ last'.body.Caller = a
            /\ last'.body.Target = b
            /\ last'.body.Status = "pending"]_vars

\* a create has succeeded and the target's notification is started
C7_Witness ==
    /\ last.op = "create" /\ last.err = "ok"
    /\ GetSession(last.target).body.Status = "pending"
    /\ goroutines # <<>>

\* C8: Create fails with AlreadyInSession when the initiator has an index
\* entry, else with TargetBusy when the target has one, else with SelfTarget
\* when initiator = target; a failing Create leaves the store, the index and
\* the registry unchanged and starts no notification.
C8_CreateErrors ==
    [][last'.op = "create" =>
        /\ InIndex(last'.user) => last'.err = "AlreadyInSession"
        /\ (~InIndex(last'.user) /\ InIndex(last'.target))
              => last'.err = "TargetBusy"
        /\ (~InIndex(last'.user) /\ ~InIndex(last'.target)
               /\ last'.user = last'.target)
              => last'.err = "SelfTarget"
        /\ last'.err # "ok"
              => UNCHANGED <<sessions, userSessions, wsConnections, conns,
                             goroutines>>]_vars

\* a create of a session with oneself was refused
C8_Witness ==
    /\ last.op = "create" /\ last.err = "SelfTarget"
    /\ DOMAIN sessions # {} /\ wsConnections # EmptyMap

\* C9: accept by the caller fails with Forbidden and changes neither store
\* nor index; accept by the target of a pending session makes Get of both
\* parties report active; accept by the target of an active session fails
\* with InvalidState and leaves it active.
C9_Accept ==
    [][\A u \in Identities :
        (last'.op = "accept" /\ last'.user = u /\ InIndex(u)
           /\ userSessions[u] \in DOMAIN sessions) =>
        LET s == userSessions[u]
        IN /\ sessions[s].Target # u
                => /\ last'.err = "Forbidden"
                   /\ UNCHANGED <<sessions, userSessions>>
           /\ (sessions[s].Target = u /\ sessions[s].Status = "pending")
                => /\ last'.err = "ok"
                   /\ last'.body = [sessions[s] EXCEPT !.Status = "active"]
                   /\ \A p \in Identities :
                         p \in Parties(s) => GetSession(p)'.body = last'.body
           /\ (sessions[s].Target = u /\ sessions[s].Status = "active")
                => /\ last'.err = "InvalidState"
                   /\ UNCHANGED <<sessions, userSessions>>]_vars

\* the target's second accept was refused
C9_Witness ==
    /\ last.op = "accept" /\ last.err = "InvalidState"
    /\ GetSession(last.user).body.Status = "active"

\* C10: after a successful decline or cancel, Get of the caller and of the
\* target fail with NoSession, the session is not in the store, and the
\* session returned has the status declined, or cancelled.
C10_DeclineCancelRemove ==
    (last.err = "ok" /\ last.op \in {"decline", "cancel"}) =>
        /\ GetSession(last.body.Caller).err = "NoSession"
        /\ GetSession(last.body.Target).err = "NoSession"
        /\ last.user \in {last.body.Caller, last.body.Target}
        /\ \A s \in DOMAIN sessions :
              {last.body.Caller, last.body.Target} \cap Parties(s) = {}
        /\ last.body.Status = IF last.op = "decline" THEN "declined" ELSE "cancelled"

\* the target has cancelled and the caller's notification is started
C10_Witness ==
    /\ Terminated("cancel") /\ last.user = last.body.Target
    /\ goroutines # <<>>
    /\ goroutines[Len(goroutines)].body = last.body

\* C11: when the channel of a party of an active session closes, the
\* disconnect sets the status disconnected, starts exactly one
\* session_updated notification, to the channel registered for the other
\* party (none when it has no registered channel), removes the session from
\* the store and both identities from the index, and Get of either party
\* then fails with NoSession.
C11_DisconnectActive ==
    [][\A c \in DOMAIN conns, u \in Identities, o \in Identities :
        (/\ last'.op = "disconnect" /\ last'.conn = c /\ conns[c] = u
         /\ InIndex(u) /\ userSessions[u] \in DOMAIN sessions
         /\ sessions[userSessions[u]].Status = "active"
         /\ Parties(userSessions[u]) = {u, o}) =>
        LET s == userSessions[u]
        IN /\ last'.err = "ok"
           /\ last'.body = [sessions[s] EXCEPT !.Status = "disconnected"]
           /\ s \notin DOMAIN sessions'
           /\ u \notin DOMAIN userSessions'
           /\ o \notin DOMAIN userSessions'
           /\ GetSession(u)'.err = "NoSession"
           /\ GetSession(o)'.err = "NoSession"
           /\ o \notin DOMAIN wsConnections => StartedAtClose(c) = <<>>
           /\ o \in DOMAIN wsConnections
                => /\ Len(StartedAtClose(c)) = 1
                   /\ StartedAtClose(c)[1].event = "session_updated"
                   /\ StartedAtClose(c)[1].conn = wsConnections[o]
                   /\ StartedAtClose(c)[1].body = last'.body]_vars

\* the caller of an active session lost its channel and the target, which has
\* one, is being notified
C11_Witness ==
    /\ Terminated("disconnect") /\ last.user = last.body.Caller
    /\ last.was = "active"
    /\ goroutines # <<>>
    /\ goroutines[Len(goroutines)].issued = "disconnected"
    /\ goroutines[Len(goroutines)].conn[1] = last.body.Target

\* C12: the events written to one channel are written in the order in which
\* they were started: no goroutine writes to a connection while a goroutine
\* started before it still has to write to that connection.
C12_ChannelFIFO ==
    [][last'.op = "write" =>
        \A j \in 1..(last'.code - 1) : goroutines[j].conn # last'.conn]_vars

\* two notifications wait for one connection: a create's and an accept's
C12_TwoPending ==
    \E i, j \in DOMAIN goroutines :
        /\ i < j /\ goroutines[i].conn = goroutines[j].conn
        /\ goroutines[i].issued = "pending" /\ goroutines[j].issued = "active"

\* the status code the error-to-status mapping gives each error
MappedCode(err) ==
    IF err \in {"AlreadyInSession", "TargetBusy"} THEN 409
    ELSE IF err \in {"SelfTarget", "InvalidState"} THEN 400
    ELSE IF err = "Forbidden" THEN 403
    ELSE 404

\* C13: every failing create, accept, decline, cancel and get answers the
\* status of its error: conflict for AlreadyInSession and TargetBusy, bad
\* request for SelfTarget and InvalidState, forbidden for Forbidden, not
\* found for NoSession and SessionNotFound.
C13_ErrorStatus ==
    (last.op \in {"create", "accept", "decline", "cancel", "get"}
        /\ last.err # "ok")
      => last.code = MappedCode(last.err)

\* C14: a channel registered for an identity stays the one the registry
\* returns for it as long as its receive loop runs, unless a newer
\* registration replaces it; the entry of an identity is removed only by the
\* closure of the channel registered for it at that time.
C14_RegistryFollowsCurrent ==
    [][\A u \in DOMAIN wsConnections :
        LET c == wsConnections[u]
        IN /\ c \in DOMAIN conns'
                => /\ u \in DOMAIN wsConnections'
                   /\ \/ wsConnections'[u] = c
                      \/ /\ last'.op = "ws_connect" /\ last'.user = u
                         /\ wsConnections'[u] = last'.conn
           /\ u \notin DOMAIN wsConnections'
                => last'.op = "disconnect" /\ last'.conn = c]_vars

\* C15: the session_updated frame a goroutine writes carries the status the
\* session had when the handler that started the goroutine had made its
\* transition: pending for create, active for accept, declined, cancelled or
\* disconnected for the transition that ended the session.
C15_StatusAsIssued ==
    [][\A i \in DOMAIN goroutines :
        (/\ last'.op = "write" /\ last'.code = i
         /\ goroutines' = Remove(goroutines, i)
         /\ goroutines[i].event = "session_updated")
          => last'.body.Status = goroutines[i].issued]_vars

\* C16: no handler and no relay holds mu while a write to a connection is
\* in progress on its behalf, and every handler that has taken mu unlocks
\* it, whatever path it took and also while a write to some connection is
\* blocked for ever.
C16_LockReleased ==
    /\ [](mu.inline = <<>>)
    /\ (mu.holder # "") ~> (mu.holder = "")

\* a write to bob's connection is blocked and carol's create, of a session
\* bob is no party of, holds mu
C16_Witness ==
    /\ stalled.blocked /\ stalled.conn[1] = "bob"
    /\ mu.holder = "create" /\ last.err = "ok"
    /\ "bob" \notin {last.body.Caller, last.body.Target}

\* the goroutines the step started, whether or not it closed a connection
NewWrites ==
    IF last'.op = "disconnect" THEN StartedAtClose(last'.conn) ELSE Started

\* C17: a successful create, accept, decline, cancel or disconnect changes
\* the store and the index and answers as its request and the store alone
\* determine, whether the parties have a registered channel or not; it starts
\* no notification for a party without a registered channel, and a later
\* registration starts none either, so that a dropped notification is never
\* delivered.
C17_BestEffort ==
    [][/\ (last'.err = "ok"
            /\ last'.op \in {"create", "accept", "decline", "cancel", "disconnect"})
          => LET b == last'.body
                 sid == b.SessionID
             IN /\ last'.op = "create"
                     => /\ sid \notin DOMAIN sessions
                        /\ b = NewSession(sid, last'.user, last'.target, b.Type)
                        /\ sessions' = MapPut(sessions, sid, b)
                        /\ userSessions' =
                              MapPut(MapPut(userSessions, b.Caller, sid), b.Target, sid)
                /\ last'.op = "accept"
                     => /\ b = [sessions[sid] EXCEPT !.Status = "active"]
                        /\ sessions' = MapPut(sessions, sid, b)
                        /\ userSessions' = userSessions
                /\ last'.op \in {"decline", "cancel", "disconnect"}
                     => /\ b = [sessions[sid] EXCEPT !.Status =
                                  IF last'.op = "decline" THEN "declined"
                                  ELSE IF last'.op = "cancel" THEN "cancelled"
                                  ELSE "disconnected"]
                        /\ sessions' = MapDelete(sessions, sid)
                        /\ userSessions' =
                              MapDelete(MapDelete(userSessions, b.Caller), b.Target)
                /\ last'.op # "disconnect" => last'.code = 200
                /\ \A k \in DOMAIN NewWrites :
                      /\ NewWrites[k].conn[1] \in {b.Caller, b.Target}
                      /\ NewWrites[k].conn[1] \in DOMAIN wsConnections
                      /\ NewWrites[k].conn = wsConnections[NewWrites[k].conn[1]]
       /\ last'.op = "ws_connect" => goroutines' = goroutines]_vars

\* the caller has cancelled while only a third identity had a channel:
\* nothing was started for the target
C17_Witness ==
    /\ Terminated("cancel") /\ last.user = last.body.Caller
    /\ last.body.Target \notin DOMAIN wsConnections
    /\ wsConnections # EmptyMap
    /\ goroutines = <<>>

\* C18: the disconnect of an identity without an index entry removes that
\* identity's registry entry and nothing else: the store, the index and the
\* registry entries of the other identities stay as they are, and no
\* notification is started.
C18_DisconnectWithoutSession ==
    [][\A c \in DOMAIN conns, u \in Identities :
        (/\ last'.op = "disconnect" /\ last'.conn = c /\ conns[c] = u
         /\ ~InIndex(u))
          => /\ u \notin DOMAIN wsConnections'
             /\ \A x \in Identities \ {u} :
                   /\ (x \in DOMAIN wsConnections') = (x \in DOMAIN wsConnections)
                   /\ x \in DOMAIN wsConnections
                        => wsConnections'[x] = wsConnections[x]
             /\ UNCHANGED <<sessions, userSessions>>
             /\ StartedAtClose(c) = <<>>
             /\ goroutines' = Unwritten(goroutines, c)
             /\ last'.err = "NoSession"]_vars

\* carol, who is in no session, lost her channel while a session of two
\* others is stored and one of them has a channel
C18_Witness ==
    /\ last.op = "disconnect" /\ last.err = "NoSession"
    /\ DOMAIN sessions # {}
    /\ last.user \notin DOMAIN userSessions
    /\ wsConnections # EmptyMap

\* the transitions of the race that have run, and those that took effect
TerminalDone == {x \in DOMAIN race.ops : race.ops[x] # Issued}

TerminalWinners == {x \in TerminalDone : race.ops[x].err = "ok"}

TerminalStatus(x) ==
    IF x = "decline_target" THEN "declined"
    ELSE IF x \in {"cancel_caller", "cancel_target"} THEN "cancelled"
    ELSE "disconnected"

\* C19: of the decline of the target, the cancels of the caller and of the
\* target and the disconnects of the caller and of the target issued at once
\* on one session, exactly one sets its terminal status, deletes the session
\* and both index entries and starts the one notification of the other party
\* (if that party has a registered channel); each of the others finds no index
\* entry (NoSession for a request, nothing to do for a disconnect) and starts
\* no notification.
C19_OneTerminalTransition ==
    TerminalDone # {} =>
        /\ Cardinality(TerminalWinners) = 1
        /\ race.sid \notin DOMAIN sessions
        /\ race.caller \notin DOMAIN userSessions
        /\ race.target \notin DOMAIN userSessions
        /\ \A x \in TerminalWinners :
              /\ race.ops[x].status = TerminalStatus(x)
              /\ race.ops[x].notified = IF race.ops[x].registered THEN 1 ELSE 0
        /\ \A x \in TerminalDone \ TerminalWinners :
              /\ race.ops[x].err = "NoSession"
              /\ race.ops[x].status = ""
              /\ race.ops[x].notified = 0

\* all five have run; the disconnect of the target came first and notified
\* the caller
C19_Witness ==
    /\ TerminalDone = TerminalOps
    /\ race.ops["disconnect_target"].err = "ok"
    /\ race.ops["disconnect_target"].notified = 1

\* C20: the closure of a connection that a newer registration of the same
\* identity has replaced changes neither the status of the session the
\* identity is a party of nor the store nor the index.
C20_SupersededCloseKeepsSession ==
    [][\A c \in DOMAIN conns, u \in Identities :
        (/\ last'.op = "disconnect" /\ last'.conn = c /\ conns[c] = u
         /\ u \in DOMAIN wsConnections /\ wsConnections[u] # c)
          => UNCHANGED <<sessions, userSessions>>]_vars

====
